---- MODULE Spec2Model ----
(***************************************************************************)
(* Model of the BlocksManager actor of witnet-rust                         *)
(* (core/src/actors/blocks_manager/mod.rs): the block index (blocks,       *)
(* epoch_to_block_hash), the chain info and its persistence through the    *)
(* StorageManager, and the three index operations process_new_block,       *)
(* try_to_get_block and discard_existing_inv_vectors.                      *)
(***************************************************************************)
EXTENDS Integers, Sequences, FiniteSets, TLC

\* ------------------------------------------------------------------------
\* Bounds
\* ------------------------------------------------------------------------

\* Largest checkpoint (epoch) a block's beacon carries: checkpoints 1..MaxCheckpoint.
MaxCheckpoint == 2

\* Largest number of blocks the index is allowed to hold (the maps are unbounded).
MaxBlocks == 2

\* Largest length of a list of inventory vectors offered by a peer.
MaxInv == 2

\* Largest number of Put messages sent to the StorageManager.
MaxPuts == 2

\* ------------------------------------------------------------------------
\* Data: Option, Result, Hash, Block, ChainInfo, InvVector
\* ------------------------------------------------------------------------

None == [some |-> FALSE]

Some(x) == [some |-> TRUE, val |-> x]

Ok(x) == [ok |-> TRUE, val |-> x]

Err(e) == [ok |-> FALSE, err |-> e]

\* Epoch: the checkpoints of the model.
Epoch == 1..MaxCheckpoint

\* The influences of the leadership proofs of the test blocks.
Influences == {12345, 99999}

\* LeadershipProof.block_sig: Option<Signature>, absent or present.
BlockSigs == {"None", "Some"}

\* The blocks of the model: build_hardcoded_block(checkpoint, influence) for
\* both influences, and the block of the greater influence with a signature
\* (another block of the same checkpoint and influence); the other fields are
\* those of the fixture.
Block ==
    { b \in [checkpoint : Epoch, influence : Influences, block_sig : BlockSigs] :
        b.influence = 99999 \/ b.block_sig = "None" }

\* Storable::to_bytes of a block: the fields in declaration order
\* (version, checkpoint, hash_prev_block, hash_merkle_root, block_sig,
\* influence split in two digits base 251, txn_count).
to_bytes(block) ==
    Ok(<< 1, block.checkpoint, 4, 3,
          IF block.block_sig = "None" THEN 0 ELSE 1,
          block.influence \div 251, block.influence % 251, 1 >>)

\* One digest byte: a polynomial fold of the bytes, modulo the prime 251.
RECURSIVE Fold(_, _, _)
Fold(bytes, mult, acc) ==
    IF bytes = << >> THEN acc
    ELSE Fold(Tail(bytes), mult, (acc * mult + Head(bytes) + 1) % 251)

\* The digest of a byte string, here two bytes wide.
digest(bytes) == << Fold(bytes, 31, 7), Fold(bytes, 17, 3) >>

\* The digests of the serializations of the model's blocks, computed once.
digests == [bytes \in { to_bytes(b).val : b \in Block } |-> digest(bytes)]

\* calculate_sha256 of the serialization of a block.
calculate_sha256(bytes) == digests[bytes]

\* Hash::SHA256([1; 32]) and Hash::SHA256([2; 32]): invented hashes of the tests.
InventedHashes == { <<1, 1>>, <<2, 2>> }

\* The hash of a block of the model (serialization never fails on these).
HashOf(block) == calculate_sha256(to_bytes(block).val)

\* The hashes of the model: those of its blocks and the invented ones.
Hash == { HashOf(b) : b \in Block } \cup InventedHashes

\* Lexicographic order on hashes (byte arrays of equal length).
RECURSIVE LexLess(_, _)
LexLess(a, b) ==
    IF a = << >> \/ b = << >> THEN FALSE
    ELSE \/ Head(a) < Head(b)
         \/ Head(a) = Head(b) /\ LexLess(Tail(a), Tail(b))

\* InvVector: one of five variants, each wrapping a hash.
InvTags == {"Error", "Block", "Tx", "DataRequest", "DataResult"}

InvVector == [tag : InvTags, hash : Hash]


\* The blocks and hashes the inventory vectors of the model refer to: the two
\* blocks of tests::add_blocks_same_epoch and the invented hash [1; 32].
OfferedBlocks ==
    { [checkpoint |-> 2, influence |-> 99999, block_sig |-> "None"],
      [checkpoint |-> 2, influence |-> 12345, block_sig |-> "None"] }

OfferedVectors ==
    [tag : InvTags, hash : { HashOf(b) : b \in OfferedBlocks } \cup { <<1, 1>> }]

\* The hashes try_to_get_block is asked for.
QueryHashes == { HashOf(b) : b \in OfferedBlocks } \cup InventedHashes

\* Vec<InvVector> of length at most MaxInv.
InvLists == UNION { [1..n -> OfferedVectors] : n \in 0..MaxInv }

\* ChainInfo: the beacon of the highest block (checkpoint, hash).
DefaultChainInfo == [checkpoint |-> 0, hash |-> <<0, 0>>]

\* A ChainInfo left in storage by an earlier run of the node.
StoredChainInfo ==
    [checkpoint |-> 1,
     hash |-> HashOf([checkpoint |-> 1, influence |-> 99999, block_sig |-> "None"])]

\* ------------------------------------------------------------------------
\* State
\* ------------------------------------------------------------------------

VARIABLES
    state,                \* lifecycle of the actor: Uninitialized, Loading, Ready, Failed
    chain_info,           \* BlocksManager.chain_info : Option<ChainInfo>
    epoch_to_block_hash,  \* BlocksManager.epoch_to_block_hash : HashMap<Epoch, HashSet<Hash>>
    blocks,               \* BlocksManager.blocks : HashMap<Hash, Block>
    canonical,            \* hash selected by the last consolidation of each epoch
    storage,              \* value the StorageManager holds under CHAIN_KEY
    pending,              \* storage request the actor's context is waiting for
    puts,                 \* number of Put messages sent for CHAIN_KEY
    offered,              \* the list of inventory vectors a peer offers
    last,                 \* the last operation handled, its argument and result
    returned,             \* the (hash, block) pairs process_new_block returned Ok for
    held                  \* the ChainInfo values chain_info has held, this run or an earlier one

vars == << state, chain_info, epoch_to_block_hash, blocks, canonical, storage,
           pending, puts, offered, last, returned, held >>

index == << epoch_to_block_hash, blocks >>

NoRequest == [kind |-> "none", status |-> "none", value |-> None]

NoOp == [op |-> "none", arg |-> None, res |-> None, pre |-> None]

\* ------------------------------------------------------------------------
\* The maps
\* ------------------------------------------------------------------------

\* HashMap::get on the epoch map, as a set: the candidates of an epoch.
candidates(map, epoch) == IF epoch \in DOMAIN map THEN map[epoch] ELSE {}

\* An insertion that replaces the set of the checkpoint by the new hash alone.
entry_insert_replacing(map, checkpoint, hash) ==
    [e \in DOMAIN map \cup {checkpoint} |-> IF e = checkpoint THEN {hash} ELSE map[e]]

\* epoch_to_block_hash.entry(checkpoint).or_insert_with(HashSet::new).insert(hash)
entry_insert(map, checkpoint, hash) ==
    [e \in DOMAIN map \cup {checkpoint} |->
        IF e = checkpoint THEN candidates(map, e) \cup {hash} ELSE map[e]]

\* A process_new_block that leaves the map of known blocks as it was.
blocks_insert_skipped(map, hash, block) == map

\* A process_new_block that stores the block under the digest with its bytes
\* in the other order.
blocks_insert_swapped(map, hash, block) ==
    [h \in DOMAIN map \cup { << hash[2], hash[1] >> } |->
        IF h = << hash[2], hash[1] >> THEN block ELSE map[h]]

\* blocks.insert(hash, block)
blocks_insert(map, hash, block) ==
    [h \in DOMAIN map \cup {hash} |-> IF h = hash THEN block ELSE map[h]]

\* blocks.get(&hash)
blocks_get(map, hash) == IF hash \in DOMAIN map THEN Some(map[hash]) ELSE None

\* ------------------------------------------------------------------------
\* The actor's context
\* ------------------------------------------------------------------------

\* A context whose futures are registered with `.spawn(ctx)`: it handles
\* messages while a Put is unresolved.
ContextNeverWaits == state = "Ready"

\* The context handles a message only once the actor is ready and no future
\* registered with `.wait(ctx)` is unresolved.
ContextRunning == state = "Ready" /\ pending.kind = "none"

\* What every handled operation leaves in the history: itself, with what it
\* read before it acted.
Handled(op, arg, res, pre) ==
    last' = [op |-> op, arg |-> arg, res |-> res, pre |-> pre]

\* A Put built from a fresh ChainInfo::default() instead of self.chain_info.
put_message_default(info) ==
    [kind |-> "Put", status |-> "sent", value |-> Some(DefaultChainInfo)]

\* The Put message persist_chain_info sends: Put::from_value(CHAIN_KEY, chain_info).
put_message(info) == [kind |-> "Put", status |-> "sent", value |-> Some(info)]

\* A persist_chain_info that builds the message and never sends it.
persist_not_sent(info) == UNCHANGED << pending, puts >>

\* persist_chain_info with the actor's chain_info being `info`: logs an error
\* and returns on None, otherwise sends the Put and makes the context wait.
persist_chain_info(info) ==
    IF ~info.some
    THEN UNCHANGED << pending, puts >>
    ELSE /\ pending' = put_message(info.val)
         /\ puts' = puts + 1

\* ------------------------------------------------------------------------
\* The index operations
\* ------------------------------------------------------------------------

\* What process_new_block finds before it acts: the size of the index,
\* whether the block is known, and the operation handled just before it:
\* (first) a process_new_block of this same block, with its result and what
\* it found; (missing) a reconciliation of the peer's offer, with its answer.
pre_state(block) ==
    [size |-> Cardinality(DOMAIN blocks),
     known |-> HashOf(block) \in DOMAIN blocks,
     first |-> IF last.op = "process_new_block" /\ last.arg = block
               THEN Some([res |-> last.res, size |-> last.pre.size,
                          known |-> last.pre.known])
               ELSE None,
     missing |-> IF last.op = "discard_existing_inv_vectors" /\ last.arg = offered
                 THEN Some(last.res.val)
                 ELSE None]

process_new_block(block) ==
    /\ ContextRunning
    /\ LET bytes == to_bytes(block) IN
       IF ~bytes.ok
       THEN /\ Handled("process_new_block", block, Err("StorageError"), pre_state(block))
            /\ UNCHANGED << index, returned >>
       ELSE LET hash == calculate_sha256(bytes.val) IN
            IF blocks_get(blocks, hash).some
            THEN /\ Handled("process_new_block", block, Err("BlockAlreadyExists"),
                            pre_state(block))
                 /\ UNCHANGED << index, returned >>
            ELSE /\ Cardinality(DOMAIN blocks) < MaxBlocks
                 /\ epoch_to_block_hash' =
                        entry_insert(epoch_to_block_hash, block.checkpoint, hash)
                 /\ blocks' = blocks_insert(blocks, hash, block)
                 /\ returned' = returned \cup { << hash, block >> }
                 /\ Handled("process_new_block", block, Ok(hash), pre_state(block))
    /\ UNCHANGED << state, chain_info, held, canonical, storage, pending, puts, offered >>

\* A try_to_get_block that finds no block, whatever the map holds.
get_block_never(map, hash) == Err("BlockDoesNotExist")

\* The result of try_to_get_block on a map.
get_block(map, hash) ==
    IF blocks_get(map, hash).some
    THEN Ok(blocks_get(map, hash).val)
    ELSE Err("BlockDoesNotExist")

\* A try_to_get_block that takes the block out of the map: blocks.remove(&hash).
try_to_get_block_removing(hash) ==
    /\ ContextRunning
    /\ Handled("try_to_get_block", hash, get_block(blocks, hash), None)
    /\ blocks' = [h \in DOMAIN blocks \ {hash} |-> blocks[h]]
    /\ UNCHANGED << state, chain_info, held, epoch_to_block_hash, canonical, storage,
                    pending, puts, offered, returned >>

try_to_get_block(hash) ==
    /\ ContextRunning
    /\ Handled("try_to_get_block", hash, get_block(blocks, hash), None)
    /\ UNCHANGED << state, chain_info, held, index, canonical, storage, pending, puts,
                    offered, returned >>

\* The hash an inventory vector wraps, whatever its variant.
inv_hash(inv_vector) ==
    CASE inv_vector.tag = "Error" -> inv_vector.hash
      [] inv_vector.tag = "Block" -> inv_vector.hash
      [] inv_vector.tag = "Tx" -> inv_vector.hash
      [] inv_vector.tag = "DataRequest" -> inv_vector.hash
      [] inv_vector.tag = "DataResult" -> inv_vector.hash

\* The vectors of a list in the reverse order.
Reverse(list) == [i \in 1..Len(list) |-> list[Len(list) + 1 - i]]

\* A filter that resolves only the Block variant and keeps every other vector.
missing_only_blocks(map, inv_vectors) ==
    LET not_found(inv_vector) ==
            inv_vector.tag # "Block" \/ ~blocks_get(map, inv_vector.hash).some
    IN  SelectSeq(inv_vectors, not_found)

\* A filter that collects the missing vectors in the reverse order.
missing_reversed(map, inv_vectors) ==
    LET not_found(inv_vector) == ~blocks_get(map, inv_vector.hash).some
    IN  Reverse(SelectSeq(inv_vectors, not_found))

\* A filter that keeps the vectors found in the map and drops the others.
missing_inverted(map, inv_vectors) ==
    LET found(inv_vector) == blocks_get(map, inv_vector.hash).some
    IN  SelectSeq(inv_vectors, found)

\* The filter of discard_existing_inv_vectors: the vectors not found in the map.
missing_inv_vectors(map, inv_vectors) ==
    LET not_found(inv_vector) == ~blocks_get(map, inv_hash(inv_vector)).some
    IN  SelectSeq(inv_vectors, not_found)

\* The lists a peer sends: its offer, or what the last reconciliation
\* answered (the peer offers again what was missing).
Offers ==
    {offered} \cup
    (IF last.op = "discard_existing_inv_vectors" THEN {last.res.val} ELSE {})

\* What a reconciliation finds before it acts, of the operation handled just
\* before it: (again) a reconciliation that answered this very list;
\* (inserted) a successful process_new_block that itself followed a
\* reconciliation of the peer's offer, with its hash and that answer.
pre_discard(inv_vectors) ==
    [again |-> /\ last.op = "discard_existing_inv_vectors"
               /\ last.res.val = inv_vectors,
     inserted |-> IF /\ last.op = "process_new_block"
                     /\ last.res.ok
                     /\ last.pre.missing.some
                  THEN Some([hash |-> last.res.val, missing |-> last.pre.missing.val])
                  ELSE None]

discard_existing_inv_vectors(inv_vectors) ==
    /\ ContextRunning
    /\ Handled("discard_existing_inv_vectors", inv_vectors,
               Ok(missing_inv_vectors(blocks, inv_vectors)), pre_discard(inv_vectors))
    /\ UNCHANGED << state, chain_info, held, index, canonical, storage, pending, puts,
                    offered, returned >>

\* ------------------------------------------------------------------------
\* Startup and persistence of the chain info
\* ------------------------------------------------------------------------

\* An Actor::started that asks for nothing and handles messages at once.
started_without_recovery ==
    /\ state = "Uninitialized"
    /\ state' = "Ready"
    /\ UNCHANGED << chain_info, held, index, canonical, storage, pending, puts,
                    offered, last, returned >>

\* Actor::started: asks the StorageManager for the value under CHAIN_KEY and
\* waits for the answer.
started ==
    /\ state = "Uninitialized"
    /\ state' = "Loading"
    /\ pending' = [kind |-> "Get", status |-> "sent", value |-> None]
    /\ UNCHANGED << chain_info, held, index, canonical, storage, puts, offered, last,
                    returned >>

\* StorageManager handles Get: answers the value it holds under the key.
storage_get ==
    /\ pending.kind = "Get" /\ pending.status = "sent"
    /\ pending' = [kind |-> "Get", status |-> "ok", value |-> storage]
    /\ UNCHANGED << state, chain_info, held, index, canonical, storage, puts, offered,
                    last, returned >>

\* StorageManager handles Put: the value overwrites the one under the key.
storage_put ==
    /\ pending.kind = "Put" /\ pending.status = "sent"
    /\ storage' = pending.value
    /\ pending' = [pending EXCEPT !.status = "ok"]
    /\ UNCHANGED << state, chain_info, held, index, canonical, puts, offered, last,
                    returned >>

\* The request fails: a storage error, or the StorageManager is unreachable.
storage_fail ==
    /\ pending.status = "sent"
    /\ pending' = [pending EXCEPT !.status = "err"]
    /\ UNCHANGED << state, chain_info, held, index, canonical, storage, puts, offered,
                    last, returned >>

\* The answer to the Get of startup: adopt the stored chain info, or build
\* the default one and persist it; a failed Get aborts the startup.
load_or_init ==
    /\ state = "Loading"
    /\ pending.kind = "Get" /\ pending.status \in {"ok", "err"}
    /\ IF pending.status = "err"
       THEN /\ state' = "Failed"
            /\ pending' = NoRequest
            /\ UNCHANGED << chain_info, held, puts >>
            /\ Handled("load_or_init", None, Err("StorageFailure"), None)
       ELSE IF pending.value.some
       THEN /\ state' = "Ready"
            /\ chain_info' = pending.value
            /\ held' = held \cup {pending.value.val}
            /\ pending' = NoRequest
            /\ UNCHANGED puts
            /\ Handled("load_or_init", pending.value, Ok(pending.value.val), None)
       ELSE /\ state' = "Ready"
            /\ chain_info' = Some(DefaultChainInfo)
            /\ held' = held \cup {DefaultChainInfo}
            /\ persist_chain_info(Some(DefaultChainInfo))
            /\ Handled("load_or_init", pending.value, Ok(DefaultChainInfo), None)
    /\ UNCHANGED << index, canonical, storage, offered, returned >>

\* A closure that handles the error by falling back to what storage holds.
persist_done_rollback ==
    /\ pending.kind = "Put" /\ pending.status \in {"ok", "err"}
    /\ pending' = NoRequest
    /\ chain_info' = IF pending.status = "ok" THEN chain_info ELSE storage
    /\ Handled("persist_chain_info", pending.value,
               IF pending.status = "ok" THEN Ok("info") ELSE Err("error"), None)
    /\ UNCHANGED << state, index, canonical, storage, puts, offered, returned,
                    held >>

\* The closure run when the Put resolves: logs the outcome; the context
\* resumes.
persist_done ==
    /\ pending.kind = "Put" /\ pending.status \in {"ok", "err"}
    /\ pending' = NoRequest
    /\ Handled("persist_chain_info", pending.value,
               IF pending.status = "ok" THEN Ok("info") ELSE Err("error"), None)
    /\ UNCHANGED << state, chain_info, held, index, canonical, storage, puts, offered,
                    returned >>

\* ------------------------------------------------------------------------
\* Consolidation
\* ------------------------------------------------------------------------

\* Candidate a ranks before candidate b: greater influence, or the same
\* influence and the smaller hash.
ranks_before(a, b) ==
    \/ blocks[a].influence > blocks[b].influence
    \/ blocks[a].influence = blocks[b].influence /\ LexLess(a, b)

\* The candidate kept after visiting the candidates in the given order.
RECURSIVE select_canonical(_, _)
select_canonical(order, best) ==
    IF order = << >> THEN best
    ELSE select_canonical(Tail(order),
                          IF ranks_before(Head(order), best) THEN Head(order) ELSE best)

\* The orders in which a HashSet may be iterated.
Orders(set) ==
    { o \in [1..Cardinality(set) -> set] : \A i, j \in DOMAIN o : i # j => o[i] # o[j] }

\* A consolidation that persists chain_info again when there is no candidate.
consolidate_persists_empty(epoch) ==
    /\ ContextRunning
    /\ candidates(epoch_to_block_hash, epoch) = {}
    /\ puts < MaxPuts
    /\ persist_chain_info(chain_info)
    /\ Handled("consolidate", epoch, Err("NoCandidates"), {})
    /\ UNCHANGED << state, chain_info, held, index, canonical, storage, offered,
                    returned >>

consolidate(epoch) ==
    /\ ContextRunning
    /\ LET cands == candidates(epoch_to_block_hash, epoch) IN
       IF cands = {}
       THEN /\ Handled("consolidate", epoch, Err("NoCandidates"), cands)
            /\ UNCHANGED << chain_info, held, canonical, pending, puts >>
       ELSE /\ puts < MaxPuts
            /\ \E order \in Orders(cands) :
                 LET hash == select_canonical(Tail(order), Head(order))
                     info == Some([checkpoint |-> epoch, hash |-> hash])
                 IN  /\ chain_info' = info
                     /\ held' = held \cup {info.val}
                     /\ canonical' = [canonical EXCEPT ![epoch] = Some(hash)]
                     /\ persist_chain_info(info)
                     /\ Handled("consolidate", epoch, Ok(hash), cands)
    /\ UNCHANGED << state, index, storage, offered, returned >>

\* ------------------------------------------------------------------------
\* Specifications
\* ------------------------------------------------------------------------

\* The offer of tests::discard_some: a known block and the invented hash.
FixtureOffer ==
    << [tag |-> "Block",
        hash |-> HashOf([checkpoint |-> 2, influence |-> 99999, block_sig |-> "None"])],
       [tag |-> "Block", hash |-> <<1, 1>>] >>

Init ==
    /\ state = "Uninitialized"
    /\ chain_info = None
    /\ epoch_to_block_hash = [e \in {} |-> {}]
    /\ blocks = [h \in {} |-> None]
    /\ canonical = [e \in Epoch |-> None]
    /\ storage \in {None, Some(StoredChainInfo)}
    /\ pending = NoRequest
    /\ puts = 0
    /\ offered = FixtureOffer
    /\ last = NoOp
    /\ returned = {}
    /\ held = IF storage.some THEN {storage.val} ELSE {}

Next ==
    \/ started
    \/ storage_get
    \/ storage_put
    \/ storage_fail
    \/ load_or_init
    \/ persist_done
    \/ \E block \in Block : process_new_block(block)
    \/ \E hash \in QueryHashes : try_to_get_block(hash)
    \/ \E inv_vectors \in Offers : discard_existing_inv_vectors(inv_vectors)
    \/ \E epoch \in Epoch : consolidate(epoch)

Spec == Init /\ [][Next]_vars

\* The index operations alone, on a ready actor, for every offer of a peer.
InitIndex ==
    /\ state = "Ready"
    /\ chain_info = Some(DefaultChainInfo)
    /\ epoch_to_block_hash = [e \in {} |-> {}]
    /\ blocks = [h \in {} |-> None]
    /\ canonical = [e \in Epoch |-> None]
    /\ storage = Some(DefaultChainInfo)
    /\ pending = NoRequest
    /\ puts = 1
    /\ offered \in InvLists
    /\ last = NoOp
    /\ returned = {}
    /\ held = {DefaultChainInfo}

NextIndex ==
    \/ \E block \in OfferedBlocks : process_new_block(block)
    \/ \E inv_vectors \in Offers : discard_existing_inv_vectors(inv_vectors)

SpecIndex == InitIndex /\ [][NextIndex]_vars

\* ------------------------------------------------------------------------
\* Properties
\* ------------------------------------------------------------------------

\* C1: when a process_new_block(B) directly follows a process_new_block(B) that
\* found B unknown, the first returned Ok(hash of B), the second returns
\* BlockAlreadyExists, and the map of blocks holds exactly one entry more than
\* before the first call.
C1_SameBlockTwice ==
    ( /\ last.op = "process_new_block"
      /\ last.pre.first.some
      /\ ~last.pre.first.val.known )
    => /\ last.pre.first.val.res = Ok(HashOf(last.arg))
       /\ last.res = Err("BlockAlreadyExists")
       /\ Cardinality(DOMAIN blocks) = last.pre.first.val.size + 1

\* A block was submitted twice in a row to an index that held another block.
C1_Witness ==
    /\ last.op = "process_new_block"
    /\ last.pre.first.some
    /\ ~last.pre.first.val.known
    /\ last.pre.first.val.size = 1
    /\ ~last.res.ok

\* The hashes process_new_block returned Ok for, for blocks of an epoch.
InsertedAt(epoch) == { p \in returned : p[2].checkpoint = epoch }

\* C2: when the blocks successfully inserted for an epoch E are exactly two
\* different blocks B1 and B2 (in either order), the candidate set of E has
\* size 2 and holds the hash of B1 and the hash of B2.
C2_SameEpoch ==
    \A b1, b2 \in Block :
        ( /\ b1 # b2
          /\ b1.checkpoint = b2.checkpoint
          /\ InsertedAt(b1.checkpoint) = { << HashOf(b1), b1 >>, << HashOf(b2), b2 >> } )
        => /\ Cardinality(candidates(epoch_to_block_hash, b1.checkpoint)) = 2
           /\ HashOf(b1) \in candidates(epoch_to_block_hash, b1.checkpoint)
           /\ HashOf(b2) \in candidates(epoch_to_block_hash, b1.checkpoint)

\* The two blocks of tests::add_blocks_same_epoch were inserted, the one of
\* influence 12345 last.
C2_Witness ==
    /\ Cardinality(InsertedAt(2)) = 2
    /\ OfferedBlocks = { p[2] : p \in InsertedAt(2) }
    /\ last.op = "process_new_block"
    /\ last.res.ok
    /\ last.arg.influence = 12345

\* C3: try_to_get_block(h) returns Ok(B) exactly when an earlier
\* process_new_block(B) returned Ok(h), and B is that block; for any other
\* hash it fails with BlockDoesNotExist.
C3_GetBlock ==
    last.op = "try_to_get_block"
    => LET hits == { p \in returned : p[1] = last.arg }
       IN  IF hits = {}
           THEN last.res = Err("BlockDoesNotExist")
           ELSE \A p \in hits : last.res = Ok(p[2])

\* A block is asked for and found while the index holds another block too.
C3_Witness ==
    /\ last.op = "try_to_get_block"
    /\ last.res.ok
    /\ Cardinality(returned) = 2

\* The positions of a list whose vector wraps a hash that is no key of blocks.
Kept(list) == { i \in 1..Len(list) : list[i].hash \notin DOMAIN blocks }

\* C4: discard_existing_inv_vectors(v) returns Ok with the vectors of v whose
\* hash is no key of the map of blocks, of every variant, in the order of v
\* and as often as they occur in v; the empty list gives the empty list.
C4_Missing ==
    last.op = "discard_existing_inv_vectors"
    => LET v == last.arg
           rank(i) == Cardinality({ j \in Kept(v) : j <= i })
       IN  /\ last.res.ok
           /\ Len(last.res.val) = Cardinality(Kept(v))
           /\ \A i \in Kept(v) : last.res.val[rank(i)] = v[i]
           /\ (v = << >> => last.res.val = << >>)

\* A list of two vectors of variants other than Block, the first known and
\* the second not, was reconciled.
C4_Witness ==
    /\ last.op = "discard_existing_inv_vectors"
    /\ Len(last.arg) = 2
    /\ Kept(last.arg) = {2}
    /\ last.arg[1].tag = "Tx"
    /\ last.arg[2].tag = "DataResult"
    /\ last.res.val = << last.arg[2] >>

\* C5: a reconciliation of the list the reconciliation just before it
\* answered (no insertion in between) answers that same list.
C5_Idempotent ==
    ( /\ last.op = "discard_existing_inv_vectors"
      /\ last.pre.again )
    => last.res.val = last.arg

\* The answer of a reconciliation, the one vector left of an offer of two,
\* was reconciled again.
C5_Witness ==
    /\ last.op = "discard_existing_inv_vectors"
    /\ last.pre.again
    /\ Len(offered) = 2
    /\ last.arg = << offered[2] >>

\* A list without the vectors that wrap the hash.
Without(list, hash) ==
    LET other(inv_vector) == inv_vector.hash # hash
    IN  SelectSeq(list, other)

\* C6: when the offer v is reconciled, then a block unknown so far whose hash
\* h an entry of v wraps is inserted, then v is reconciled again, the second
\* answer is the first one without the entries that wrap h, the others in the
\* same order.
C6_AfterInsert ==
    ( /\ last.op = "discard_existing_inv_vectors"
      /\ last.arg = offered
      /\ last.pre.inserted.some
      /\ \E i \in 1..Len(offered) : offered[i].hash = last.pre.inserted.val.hash )
    => last.res.val = Without(last.pre.inserted.val.missing, last.pre.inserted.val.hash)

\* Between two reconciliations of an offer of two missing vectors the block
\* the first one wraps was inserted; the second one stays missing.
C6_Witness ==
    /\ last.op = "discard_existing_inv_vectors"
    /\ last.arg = offered
    /\ last.pre.inserted.some
    /\ Len(offered) = 2
    /\ offered[1].hash = last.pre.inserted.val.hash
    /\ offered[1].tag = "DataRequest"
    /\ last.pre.inserted.val.missing = offered
    /\ last.res.val = << offered[2] >>

\* The hashes of the blocks successfully inserted for an epoch.
Proposed(epoch) == { p[1] : p \in InsertedAt(epoch) }

\* The influence of the block that was inserted under a hash.
InfluenceOf(hash) == (CHOOSE p \in returned : p[1] = hash)[2].influence

\* C7: consolidate(E), when blocks were inserted for E, selects one of their
\* hashes, and every other candidate has a smaller influence, or the same
\* influence and a greater hash in the lexicographic order: the selection is
\* that of the set, in whatever order the candidates came or are visited.
C7_Consolidate ==
    last.op = "consolidate"
    => IF Proposed(last.arg) = {}
       THEN ~last.res.ok
       ELSE /\ last.res.ok
            /\ last.res.val \in Proposed(last.arg)
            /\ \A h \in Proposed(last.arg) \ {last.res.val} :
                   \/ InfluenceOf(last.res.val) > InfluenceOf(h)
                   \/ /\ InfluenceOf(last.res.val) = InfluenceOf(h)
                      /\ LexLess(last.res.val, h)

\* An epoch with two candidates of the same, greatest influence was
\* consolidated.
C7_Witness ==
    /\ last.op = "consolidate"
    /\ last.res.ok
    /\ Cardinality(Proposed(last.arg)) = 2
    /\ \A h \in Proposed(last.arg) : InfluenceOf(h) = 99999

\* C8: after load_or_init found no value under the chain-head key, the chain
\* info is the default one and exactly one Put, of the default chain info, was
\* sent; after it found a value, the chain info is that value, no Put was
\* sent and the stored value is untouched.
C8_LoadOrInit ==
    ( /\ last.op = "load_or_init"
      /\ last.res.ok )
    => IF last.arg.some
       THEN /\ chain_info = last.arg
            /\ puts = 0
            /\ pending = NoRequest
            /\ storage = last.arg
       ELSE /\ chain_info = Some(DefaultChainInfo)
            /\ puts = 1
            /\ pending.kind = "Put"
            /\ pending.value = Some(DefaultChainInfo)
            /\ storage \in {None, Some(DefaultChainInfo)}

\* The node started on an empty storage and its first Put was stored.
C8_Witness ==
    /\ last.op = "load_or_init"
    /\ ~last.arg.some
    /\ puts = 1
    /\ pending.status = "ok"
    /\ storage = Some(DefaultChainInfo)

\* C9: every hash in the candidate set of an epoch is a key of the map of
\* blocks.
C9_NoDangling ==
    \A e \in DOMAIN epoch_to_block_hash : epoch_to_block_hash[e] \subseteq DOMAIN blocks

\* Two epochs have a candidate each; a duplicate was just rejected.
C9_Witness ==
    /\ Cardinality(DOMAIN epoch_to_block_hash) = 2
    /\ last.op = "process_new_block"
    /\ last.res = Err("BlockAlreadyExists")

\* C10: the block stored under a key of the map of blocks hashes to that key.
C10_KeyIsHash ==
    \A h \in DOMAIN blocks : calculate_sha256(to_bytes(blocks[h]).val) = h

\* The index holds two blocks of the same epoch.
C10_Witness ==
    /\ Cardinality(DOMAIN blocks) = 2
    /\ \E e \in Epoch : Cardinality(candidates(epoch_to_block_hash, e)) = 2

PutHead == pending.value.val.hash

\* A Put the StorageManager has applied; its acknowledgment is on its way.
\* The context waits while the Put is in flight, so blocks is still the map
\* of the moment the Put was issued.
PutWritten == pending.kind = "Put" /\ pending.status = "ok"

\* C12 (as stated): every ChainInfo written to storage, the first-run one
\* included, has a head hash that was a key of blocks when the write was
\* issued.
C12_NoOrphanedHead == PutWritten => PutHead \in DOMAIN blocks

\* C12 (amended): every ChainInfo written to storage by a consolidation has
\* a head hash that was a key of blocks when the write was issued; the
\* first-run write carries the default ChainInfo, whose hash is no key.
C12_ConsolidatedHead ==
    /\ (PutWritten /\ last.op = "consolidate") => PutHead \in DOMAIN blocks
    /\ (PutWritten /\ last.op = "load_or_init") =>
          /\ pending.value = Some(DefaultChainInfo)
          /\ DOMAIN blocks = {}

C12_Witness ==
    /\ PutWritten
    /\ last.op = "consolidate"
    /\ storage = pending.value
    /\ Cardinality(DOMAIN blocks) = 2

\* A Put whose future the context has not resolved yet.
PutUnresolved == pending.kind = "Put"

\* The context handles one more block-management message.
HandleMessage ==
    \/ \E block \in Block : process_new_block(block)
    \/ \E hash \in QueryHashes : try_to_get_block(hash)
    \/ \E inv_vectors \in Offers : discard_existing_inv_vectors(inv_vectors)
    \/ \E epoch \in Epoch : consolidate(epoch)

\* C13 (as stated): while a Put awaits its acknowledgment the context keeps
\* processing the block-management messages that follow.
C13_NonBlocking == PutUnresolved => ENABLED HandleMessage

\* C13 (amended): while a Put awaits its acknowledgment the context handles
\* no block-management message, so the last message handled is the one that
\* issued the Put and chain_info is the value in flight; once the Put is
\* resolved, whatever the outcome, the context handles messages again.
C13_ContextWaits ==
    /\ PutUnresolved =>
          /\ ~ ENABLED HandleMessage
          /\ last.op \in {"consolidate", "load_or_init"}
          /\ chain_info = pending.value
    /\ last.op = "persist_chain_info" =>
          ENABLED (\E hash \in QueryHashes : try_to_get_block(hash))

C13_Witness ==
    /\ PutUnresolved
    /\ pending.status = "sent"
    /\ last.op = "consolidate"
    /\ DOMAIN blocks # {}

\* The step adds exactly the key hash to blocks and keeps every other entry.
AddsKey(hash) ==
    /\ hash \notin DOMAIN blocks
    /\ DOMAIN blocks' = DOMAIN blocks \cup {hash}
    /\ \A h \in DOMAIN blocks : blocks'[h] = blocks[h]

\* The step adds exactly the hash to the candidate set of exactly one epoch.
AddsCandidate(hash) ==
    \E e \in Epoch :
        /\ hash \notin candidates(epoch_to_block_hash, e)
        /\ candidates(epoch_to_block_hash', e) =
               candidates(epoch_to_block_hash, e) \cup {hash}
        /\ \A f \in Epoch \ {e} :
               candidates(epoch_to_block_hash', f) = candidates(epoch_to_block_hash, f)

C15_Immutable ==
    [][ \A h \in DOMAIN blocks :
            /\ h \in DOMAIN blocks'
            /\ blocks'[h] = blocks[h]
            /\ h \in candidates(epoch_to_block_hash, blocks[h].checkpoint)
            /\ h \in candidates(epoch_to_block_hash', blocks[h].checkpoint) ]_vars

\* A consolidation has chosen between two candidates and the loser is kept.
C15_Witness ==
    /\ last.op = "persist_chain_info"
    /\ chain_info.some
    /\ Cardinality(candidates(epoch_to_block_hash, chain_info.val.checkpoint)) = 2
    /\ canonical[chain_info.val.checkpoint] = Some(chain_info.val.hash)
    /\ Cardinality(DOMAIN blocks) = 2

\* The last thing the context did was to log a failed Put.
PersistFailed == last.op = "persist_chain_info" /\ ~ last.res.ok

\* C16: a failed persistence of chain_info changes nothing in memory: the
\* failure acknowledgment leaves chain_info and the two maps as they were and
\* frees the context, and a block submitted next gets the answer its hash
\* decides, Ok for a new block, never an error of the storage.
C16_FailedPersist ==
    [][ /\ (last' # last /\ PersistFailed') =>
              /\ UNCHANGED << state, chain_info, index, canonical >>
              /\ ContextRunning'
        /\ (PersistFailed /\ last' # last /\ last'.op = "process_new_block") =>
              /\ last'.res = IF HashOf(last'.arg) \in DOMAIN blocks
                             THEN Err("BlockAlreadyExists")
                             ELSE Ok(HashOf(last'.arg))
              /\ HashOf(last'.arg) \in DOMAIN blocks' ]_vars

\* A failed Put has been acknowledged: memory is ahead of storage and a new
\* block can be submitted.
C16_Witness ==
    /\ PersistFailed
    /\ chain_info = last.arg
    /\ chain_info # storage
    /\ Cardinality(DOMAIN blocks) = 1
    /\ ENABLED (\E block \in Block :
                   HashOf(block) \notin DOMAIN blocks /\ process_new_block(block))

\* C17: the value stored under CHAIN_KEY is at every moment absent or a
\* ChainInfo value that chain_info has held, now or earlier (a value left by
\* an earlier run was held by that run).
C17_StoredWasHeld ==
    /\ storage.some => storage.val \in held
    /\ chain_info.some => chain_info.val \in held

\* Storage holds a stale value: the head of an earlier consolidation, while
\* chain_info has moved on to another head.
C17_Witness ==
    /\ storage.some
    /\ chain_info.some
    /\ storage # chain_info
    /\ storage.val.hash \in DOMAIN blocks
    /\ chain_info.val.hash \in DOMAIN blocks
    /\ pending = NoRequest

\* The lifecycle steps: recovery starts, then ends with a chain info or with
\* the startup aborted.
Lifecycle ==
    { << "Uninitialized", "Loading" >>, << "Loading", "Ready" >>,
      << "Loading", "Failed" >> }

C19_NoCandidates ==
    [][ /\ (last'.op = "consolidate" /\ ~ last'.res.ok) =>
              /\ last'.res = Err("NoCandidates")
              /\ candidates(epoch_to_block_hash, last'.arg) = {}
              /\ UNCHANGED << chain_info, canonical, pending, puts, storage, index >>
        /\ (last' # last /\ last'.op = "consolidate"
              /\ candidates(epoch_to_block_hash, last'.arg) = {}) =>
              last'.res = Err("NoCandidates") ]_vars

\* An epoch without candidates was consolidated while another epoch has one
\* and chain_info is set.
C19_Witness ==
    /\ last.op = "consolidate"
    /\ last.res = Err("NoCandidates")
    /\ chain_info.some
    /\ \E e \in DOMAIN epoch_to_block_hash : e # last.arg
    /\ pending = NoRequest

\* The sum of the sizes of the candidate sets of the given epochs.
RECURSIVE SumSizes(_, _)
SumSizes(map, epochs) ==
    IF epochs = {} THEN 0
    ELSE LET e == CHOOSE x \in epochs : TRUE
         IN  Cardinality(map[e]) + SumSizes(map, epochs \ {e})

\* C20: the candidate sets partition the keys of blocks: each key belongs to
\* exactly one set, the one of the checkpoint of the block stored under it;
\* so the sizes of the sets add up to the number of blocks, and no set is
\* empty.
C20_Partition ==
    /\ \A h \in DOMAIN blocks :
          { e \in DOMAIN epoch_to_block_hash : h \in epoch_to_block_hash[e] }
              = { blocks[h].checkpoint }
    /\ SumSizes(epoch_to_block_hash, DOMAIN epoch_to_block_hash)
          = Cardinality(DOMAIN blocks)
    /\ \A e \in DOMAIN epoch_to_block_hash : epoch_to_block_hash[e] # {}

\* Two blocks in two epochs: two candidate sets of one hash each.
C20_Witness ==
    /\ Cardinality(DOMAIN blocks) = 2
    /\ Cardinality(DOMAIN epoch_to_block_hash) = 2
    /\ chain_info.some
    /\ chain_info.val.hash \in DOMAIN blocks

\* The last message handled is one of the two queries.
QueryHandled == last.op \in {"try_to_get_block", "discard_existing_inv_vectors"}

\* C21: try_to_get_block and discard_existing_inv_vectors leave blocks,
\* epoch_to_block_hash and chain_info unchanged for every input, whether they
\* return Ok or an error, and send no request to the StorageManager.
C21_QueriesFrame ==
    [][ QueryHandled' =>
          /\ UNCHANGED << blocks, epoch_to_block_hash, chain_info >>
          /\ UNCHANGED << pending, puts, storage >>
          /\ pending = NoRequest ]_vars

\* A query for an unknown hash has failed on a manager that holds two blocks.
C21_Witness ==
    /\ last.op = "try_to_get_block"
    /\ last.res = Err("BlockDoesNotExist")
    /\ Cardinality(DOMAIN blocks) = 2
    /\ chain_info.some

====
